---- MODULE Spec2Model ----
(***************************************************************************)
(* Expense Tracker v2 (script.js): the transaction ledger kept in          *)
(* localStorage, its normalisation on load, the add/delete mutations, the  *)
(* form validation and the date/category filter.                           *)
(*                                                                         *)
(* JavaScript values are modelled as records [t, n, s]: t is the kind of   *)
(* value, n its number (kind "number") or, for a 'YYYY-MM-DD' string, the  *)
(* index of its calendar day, and s its text (kind "string").              *)
(***************************************************************************)
EXTENDS Integers, Sequences, FiniteSets, TLC

\* ---- bounds of the model ----
MaxRecs == 2        \* longest persisted array drawn in Init
MaxLen == 2         \* longest ledger an add may extend
MaxClock == 1       \* last value of Date.now() (ticks since the first)
MaxRandom == 2      \* Math.floor(Math.random() * 1000) drawn from 0..MaxRandom-1
MaxDay == 3         \* calendar days 1..MaxDay are used as dates

\* ---- JavaScript values ----
Undef == [t |-> "undefined", n |-> 0, s |-> ""]
Null == [t |-> "null", n |-> 0, s |-> ""]
NaN == [t |-> "NaN", n |-> 0, s |-> ""]
Num(i) == [t |-> "number", n |-> i, s |-> ""]
Str(x) == [t |-> "string", n |-> 0, s |-> x]
\* the string 'YYYY-MM-DD' of calendar day d
DateStr(d) == [t |-> "string", n |-> d, s |-> "YYYY-MM-DD"]

\* a ?? b
Nullish(a, b) == IF a.t \in {"undefined", "null"} THEN b ELSE a

\* Number(text) for the texts of the model
StringToNumber(x) ==
    CASE x = "" -> Num(0)
      [] x = " " -> Num(0)
      [] x = "0" -> Num(0)
      [] x = "5" -> Num(5)
      [] x = "-5" -> Num(-5)
      [] OTHER -> NaN

\* Number(v)
ToNumber(v) ==
    CASE v.t = "number" -> v
      [] v.t = "null" -> Num(0)
      [] v.t = "string" -> IF v.s = "YYYY-MM-DD" THEN NaN ELSE StringToNumber(v.s)
      [] OTHER -> NaN

\* Math.abs(v) of a number value
MathAbs(v) == IF v.t = "number" THEN Num(IF v.n < 0 THEN -v.n ELSE v.n) ELSE NaN

\* text.trim() for the texts of the model
Trim(x) ==
    CASE x = " " -> ""
      [] x = " Rent " -> "Rent"
      [] x = " Food" -> "Food"
      [] OTHER -> x

\* ---- the clock ----
DayMs == 86400000
\* new Date().toISOString().slice(0,10): the UTC calendar day of the clock.
\* The clock counts milliseconds from the start of day 1.
Today(clock) == DateStr(1 + (clock \div DayMs))

\* ---- truthiness and the number tests of script.js ----
\* !v
Falsy(v) ==
    \/ v.t \in {"undefined", "null", "NaN"}
    \/ v.t = "number" /\ v.n = 0
    \/ v.t = "string" /\ v.s = ""

\* isNaN(v)
IsNaN(v) == ToNumber(v).t = "NaN"

\* isFinite(v) (no infinite number is modelled)
IsFinite(v) == ToNumber(v).t = "number"

\* ---- persisted data ----
\* One element of the persisted array. rk "object": a mapping with the six
\* fields (Undef: the key is absent); rk "value": a JSON number, string or
\* boolean, whose properties all read undefined; rk "null": JSON null, whose
\* property reads throw a TypeError.
RawObject(id, name, amount, type, date, category) ==
    [rk |-> "object", id |-> id, name |-> name, amount |-> amount,
     type |-> type, date |-> date, category |-> category]
RawValue == [rk |-> "value", id |-> Undef, name |-> Undef, amount |-> Undef,
             type |-> Undef, date |-> Undef, category |-> Undef]
RawNull == [rk |-> "null", id |-> Undef, name |-> Undef, amount |-> Undef,
            type |-> Undef, date |-> Undef, category |-> Undef]

\* The records a persisted array is drawn from: a well-formed v2 entry, a
\* legacy entry without id, type, date and category, an entry with the first
\* one's id, an empty name and category and a negative amount, an entry with
\* a text amount and an unknown type, a non-mapping (every field missing)
\* and null.
PersistedRecords ==
    { RawObject(Num(1), Str("Rent"), Num(5), Str("expense"), DateStr(1), Str("Food")),
      RawObject(Undef, Str("Pay"), Num(7), Undef, Undef, Undef),
      RawObject(Num(1), Str(""), Num(-5), Str("income"), DateStr(2), Str("")),
      RawObject(Num(2), Str("Rent"), Str("abc"), Str("other"), DateStr(1), Str("Food")),
      RawValue,
      RawNull }

\* sequences over S of length 0..n
SeqUpTo(S, n) == UNION { [1..k -> S] : k \in 0..n }

\* What localStorage.getItem(STORAGE_KEY) may return. kind "absent": null;
\* "empty": the empty string; "unparseable": a text JSON.parse rejects;
\* "nonarray": the JSON text of a value that is not an array; "array": the
\* JSON text of the array recs.
Blob(kind, recs) == [kind |-> kind, recs |-> recs]
Blobs ==
    { Blob(k, <<>>) : k \in {"absent", "empty", "unparseable", "nonarray"} }
    \cup { Blob("array", recs) : recs \in SeqUpTo(PersistedRecords, MaxRecs) }

\* JSON.stringify of one field: NaN is written as null
FieldToJSON(v) == IF v.t = "NaN" THEN Null ELSE v

\* JSON.stringify of one entry
EntryToJSON(e) ==
    RawObject(FieldToJSON(e.id), FieldToJSON(e.name), FieldToJSON(e.amount),
              FieldToJSON(e.type), FieldToJSON(e.date), FieldToJSON(e.category))

\* JSON.stringify(transactions)
JSONStringify(txs) == Blob("array", [i \in 1..Len(txs) |-> EntryToJSON(txs[i])])

\* JSON.parse(raw): it throws on a text that is no JSON
JSONParse(blob) ==
    [threw |-> blob.kind = "unparseable",
     isArray |-> blob.kind = "array",
     recs |-> blob.recs]

\* ---- loadTransactions ----
\* the callback of parsed.map: one raw record to one entry, with the clock and
\* the random offset its id default reads
Normalize(t, clock, r) ==
    [id |-> Nullish(t.id, Num(clock + r)),
     name |-> Nullish(t.name, Str("Unnamed")),
     amount |-> ToNumber(Nullish(t.amount, Num(0))),
     type |-> IF t.type = Str("expense") THEN Str("expense") ELSE Str("income"),
     date |-> Nullish(t.date, Today(clock)),
     category |-> Nullish(t.category, Str("Uncategorized"))]

\* The body of the try block: threw when JSON.parse or a property read of a
\* null record throws, else the array assigned to transactions.
LoadTry(blob, clock, rs) ==
    IF blob.kind \in {"absent", "empty"} THEN [threw |-> FALSE, txs |-> <<>>]
    ELSE LET parsed == JSONParse(blob)
         IN IF parsed.threw THEN [threw |-> TRUE, txs |-> <<>>]
            ELSE IF ~parsed.isArray THEN [threw |-> FALSE, txs |-> <<>>]
            ELSE IF \E i \in 1..Len(parsed.recs) : parsed.recs[i].rk = "null"
                 THEN [threw |-> TRUE, txs |-> <<>>]
            ELSE [threw |-> FALSE,
                  txs |-> [i \in 1..Len(parsed.recs) |->
                              Normalize(parsed.recs[i], clock, rs[i])]]

\* loadTransactions without its catch: the exception reaches the caller and
\* transactions keeps its value
LoadWithoutCatch(old, blob, clock, rs) ==
    LET body == LoadTry(blob, clock, rs)
    IN [raised |-> body.threw, txs |-> IF body.threw THEN old ELSE body.txs]

\* loadTransactions(): the new value of transactions, and whether an
\* exception reached the caller
loadTransactions(old, blob, clock, rs) ==
    LET body == LoadTry(blob, clock, rs)
    IN [raised |-> FALSE, txs |-> IF body.threw THEN <<>> ELSE body.txs]

\* ---- saveTransactions ----
saveTransactions(txs) == JSONStringify(txs)

\* ---- validateInputs ----
validateInputs(name, amount, date, category) ==
    IF Falsy(name) \/ Trim(name.s) = "" THEN FALSE
    ELSE IF \/ amount = Str("")
            \/ amount = Null
            \/ IsNaN(amount)
            \/ ~IsFinite(ToNumber(amount))
            \/ ToNumber(amount).n <= 0 THEN FALSE
    ELSE IF Falsy(date) THEN FALSE
    ELSE IF Falsy(category) \/ Trim(category.s) = "" THEN FALSE
    ELSE TRUE

\* ---- addTransaction, deleteTransaction ----
\* a || b
OrElse(a, b) == IF Falsy(a) THEN b ELSE a

\* the entry addTransaction builds
NewEntry(name, amount, type, date, category, clock, r) ==
    [id |-> Num(clock + r),
     name |-> Str(Trim(name.s)),
     amount |-> ToNumber(amount),
     type |-> type,
     date |-> date,
     category |-> OrElse(Str(Trim(category.s)), Str("Uncategorized"))]

\* addTransaction that pushes the entry and does not save
AddWithoutSave(txs, blob, name, amount, type, date, category, clock, r) ==
    [txs |-> Append(txs, NewEntry(name, amount, type, date, category, clock, r)),
     blob |-> blob]

\* addTransaction: transactions and the persisted blob after it
addTransaction(txs, blob, name, amount, type, date, category, clock, r) ==
    LET pushed == Append(txs, NewEntry(name, amount, type, date, category, clock, r))
    IN [txs |-> pushed, blob |-> saveTransactions(pushed)]

\* transactions.filter(t => t.id !== id)
RECURSIVE FilterOutId(_, _)
FilterOutId(txs, id) ==
    IF txs = <<>> THEN <<>>
    ELSE IF Head(txs).id # id THEN <<Head(txs)>> \o FilterOutId(Tail(txs), id)
    ELSE FilterOutId(Tail(txs), id)

\* deleteTransaction: transactions and the persisted blob after it
deleteTransaction(txs, blob, id) ==
    LET kept == FilterOutId(txs, id)
    IN [txs |-> kept, blob |-> saveTransactions(kept)]

\* ---- getFilters, applyFilters ----
MinuteMs == 60000

\* The offsets of the local clock from UTC, in minutes (local = UTC + tz):
\* New York (standard time), UTC, India
TzOffsets == {-300, 0, 330}

\* new Date('YYYY-MM-DD'): a date-only text is read as midnight UTC
UtcMidnight(d) == (d - 1) * DayMs

\* new Date('YYYY-MM-DD' + 'T00:00:00'): a date-time text without offset is
\* read as local time
LocalMidnight(d, tz) == (d - 1) * DayMs - tz * MinuteMs

\* date.setHours(23,59,59,999): the last millisecond of the local calendar
\* day the instant falls in
SetHoursEndOfDay(ms, tz) ==
    ((ms + tz * MinuteMs) \div DayMs) * DayMs + (DayMs - 1) - tz * MinuteMs

\* A Date or null as [set, ms]: set is FALSE for null and for an invalid Date,
\* whose comparisons are all false
NoDate == [set |-> FALSE, ms |-> 0]

\* getFilters(): start, end and category read from the filter inputs
getFilters(startValue, endValue, categoryValue, tz) ==
    [start |-> IF Falsy(startValue) THEN NoDate
               ELSE [set |-> TRUE, ms |-> UtcMidnight(startValue.n)],
     end |-> IF Falsy(endValue) THEN NoDate
             ELSE [set |-> TRUE, ms |-> SetHoursEndOfDay(UtcMidnight(endValue.n), tz)],
     category |-> OrElse(Str(categoryValue), Str("all"))]

\* new Date(t.date + 'T00:00:00')
EntryDate(e, tz) ==
    IF e.date.t = "string" /\ e.date.s = "YYYY-MM-DD"
    THEN [set |-> TRUE, ms |-> LocalMidnight(e.date.n, tz)]
    ELSE NoDate

\* the predicate of transArray.filter in applyFilters
PassesFilters(e, f, tz) ==
    LET tDate == EntryDate(e, tz)
    IN IF f.start.set /\ tDate.set /\ tDate.ms < f.start.ms THEN FALSE
       ELSE IF f.end.set /\ tDate.set /\ tDate.ms > f.end.ms THEN FALSE
       ELSE IF ~Falsy(f.category) /\ f.category # Str("all") /\ e.category # f.category
            THEN FALSE
       ELSE TRUE

RECURSIVE FilterSeq(_, _, _)
FilterSeq(txs, f, tz) ==
    IF txs = <<>> THEN <<>>
    ELSE IF PassesFilters(Head(txs), f, tz)
         THEN <<Head(txs)>> \o FilterSeq(Tail(txs), f, tz)
         ELSE FilterSeq(Tail(txs), f, tz)

\* applyFilters(transArray) under the filter inputs and the local offset
applyFilters(transArray, startValue, endValue, categoryValue, tz) ==
    FilterSeq(transArray, getFilters(startValue, endValue, categoryValue, tz), tz)

\* getAllCategories(): the option values after "all"
getAllCategories(txs) ==
    { OrElse(txs[i].category, Str("Uncategorized")).s : i \in 1..Len(txs) }

\* populateCategoryFilter(): the value of the category select once its
\* options are rebuilt; a value no option has leaves the select empty
populateCategoryFilter(existing, txs) ==
    IF existing = "" THEN "all"
    ELSE IF existing \in {"all"} \cup getAllCategories(txs) THEN existing
    ELSE ""

\* ---- updateBalance, computeMonthlySummary ----
\* a + b and a - b on JavaScript numbers
Plus(a, b) == IF a.t = "number" /\ b.t = "number" THEN Num(a.n + b.n) ELSE NaN
Minus(a, b) == IF a.t = "number" /\ b.t = "number" THEN Num(a.n - b.n) ELSE NaN

\* list.filter(t => t.type === type).reduce((acc, t) => acc + Number(t.amount), 0)
RECURSIVE TotalOfType(_, _)
TotalOfType(list, type) ==
    IF list = <<>> THEN Num(0)
    ELSE LET t == list[Len(list)]
             acc == TotalOfType(SubSeq(list, 1, Len(list) - 1), type)
         IN IF t.type = Str(type) THEN Plus(acc, ToNumber(t.amount)) ELSE acc

\* updateBalance(): the balance of the filtered entries, which formatAmount
\* then prints
updateBalance(list) == Minus(TotalOfType(list, "income"), TotalOfType(list, "expense"))

\* The text 'YYYY-MM' of month m. Day 1 is the last day but one of month 1:
\* days 1 and 2 are in month 1, the days after them in month 2.
MonthStr(m) == [t |-> "string", n |-> m, s |-> "YYYY-MM"]
MonthOfDay(d) == IF d <= 2 THEN 1 ELSE 2

\* text.slice(0,7)
Slice7(v) == IF v.s = "YYYY-MM-DD" THEN MonthStr(MonthOfDay(v.n)) ELSE v

\* the month key of an entry: (t.date && t.date.slice(0,7)) || the clock's month
MonthKey(t, clock) ==
    OrElse(IF Falsy(t.date) THEN t.date ELSE Slice7(t.date), Slice7(Today(clock)))

\* the index of the row of month in map, 0 when map has none
RowIndex(map, month) ==
    IF \E i \in 1..Len(map) : map[i].month = month
    THEN CHOOSE i \in 1..Len(map) : map[i].month = month
    ELSE 0

\* the forEach callback that sets the month's row anew for every entry
SummaryAddResetting(map, t, clock) ==
    LET month == MonthKey(t, clock)
        i == RowIndex(map, month)
        row == [month |-> month,
                income |-> IF t.type = Str("income") THEN ToNumber(t.amount) ELSE Num(0),
                expense |-> IF t.type = Str("income") THEN Num(0) ELSE ToNumber(t.amount)]
    IN IF i = 0 THEN Append(map, row) ELSE [map EXCEPT ![i] = row]

\* The forEach callback of computeMonthlySummary. The Map is the sequence of
\* its rows [month, income, expense] in insertion order.
SummaryAdd(map, t, clock) ==
    LET month == MonthKey(t, clock)
        had == RowIndex(map, month)
        with == IF had = 0
                THEN Append(map, [month |-> month, income |-> Num(0), expense |-> Num(0)])
                ELSE map
        i == RowIndex(with, month)
    IN IF t.type = Str("income")
       THEN [with EXCEPT ![i].income = Plus(@, ToNumber(t.amount))]
       ELSE [with EXCEPT ![i].expense = Plus(@, ToNumber(t.amount))]

\* baseArray.forEach(...): the Map once every entry is added
RECURSIVE SummaryMap(_, _)
SummaryMap(baseArray, clock) ==
    IF baseArray = <<>> THEN <<>>
    ELSE SummaryAdd(SummaryMap(SubSeq(baseArray, 1, Len(baseArray) - 1), clock),
                    baseArray[Len(baseArray)], clock)

\* b.month.localeCompare(a.month) < 0: a goes before b
MonthBefore(a, b) == a.month.n > b.month.n

\* arr.sort((a,b) => b.month.localeCompare(a.month)): a stable insertion of
\* each row after the rows that do not go after it
RECURSIVE InsertRow(_, _)
InsertRow(sorted, row) ==
    IF sorted = <<>> THEN <<row>>
    ELSE IF MonthBefore(row, Head(sorted)) THEN <<row>> \o sorted
    ELSE <<Head(sorted)>> \o InsertRow(Tail(sorted), row)
RECURSIVE SortRows(_)
SortRows(arr) ==
    IF arr = <<>> THEN <<>>
    ELSE InsertRow(SortRows(SubSeq(arr, 1, Len(arr) - 1)), arr[Len(arr)])

\* computeMonthlySummary(baseArray): the rows {month, income, expense, net},
\* latest month first
computeMonthlySummary(baseArray, clock) ==
    LET map == SummaryMap(baseArray, clock)
        arr == [i \in 1..Len(map) |->
                  [month |-> map[i].month, income |-> map[i].income,
                   expense |-> map[i].expense,
                   net |-> Minus(map[i].income, map[i].expense)]]
    IN SortRows(arr)

\* ---- state ----
VARIABLES
    storage,         \* localStorage's value under STORAGE_KEY
    transactions,    \* the transactions array
    raised,          \* an exception left the last handler
    lastOp,          \* the last call that loaded or changed the ledger
    now,             \* Date.now()
    filterStart,     \* filterStart.value
    filterEnd,       \* filterEnd.value
    filterCategory,  \* filterCategorySelect.value
    tz,              \* offset of the local clock from UTC, in minutes
    filtered,        \* the entries renderTransactions last listed
    balance,         \* the balance updateBalance last showed
    summary          \* the rows renderMonthlySummary last showed

vars == <<storage, transactions, raised, lastOp, now,
          filterStart, filterEnd, filterCategory, tz, filtered, balance, summary>>
viewVars == <<filtered, balance, summary>>
filterVars == <<filterStart, filterEnd, filterCategory, tz>>

\* ---- form inputs ----
FormNames == {"", " ", " Rent "}
FormAmounts == {"", "abc", "-5", "0", "5"}
FormDates == {Str(""), DateStr(1)}
FormCategories == {"", " ", " Food"}
\* addTransaction stores the select's value as it is; one option is drawn
FormTypes == {Str("expense")}

\* the values the submit handler reads and derives before it validates
SubmitName(nameText) == Str(nameText)
SubmitAmount(amountText) == MathAbs(ToNumber(Str(amountText)))
SubmitDate(dateValue, clock) == OrElse(dateValue, Today(clock))
SubmitCategory(categoryText) == OrElse(Str(categoryText), Str("Uncategorized"))

\* the submit handler's test before addTransaction
SubmitValid(nameText, amountText, dateValue, categoryText, clock) ==
    validateInputs(SubmitName(nameText), SubmitAmount(amountText),
                   SubmitDate(dateValue, clock), SubmitCategory(categoryText))

\* ---- the page before its script has run ----
Init ==
    /\ storage \in Blobs
    /\ transactions = <<>>
    /\ raised = FALSE
    /\ lastOp = "none"
    /\ now = 0
    /\ filterStart = Str("")
    /\ filterEnd = Str("")
    /\ filterCategory = "all"
    /\ tz = 0
    /\ filtered = <<>>
    /\ balance = Num(0)
    /\ summary = <<>>

\* renderAll(): what renderTransactions, updateBalance and
\* renderMonthlySummary show, each of applyFilters(transactions)
renderAll(txs, startValue, endValue, categoryValue, offset, clock) ==
    LET list == applyFilters(txs, startValue, endValue, categoryValue, offset)
    IN [filtered |-> list,
        balance |-> updateBalance(list),
        summary |-> computeMonthlySummary(list, clock)]

\* the page shows view
Show(view) ==
    /\ filtered' = view.filtered
    /\ balance' = view.balance
    /\ summary' = view.summary

\* init() on a page load: loadTransactions, populateCategoryFilter, renderAll,
\* with the filter inputs of a fresh page
Load ==
    \E rs \in [1..Len(storage.recs) -> 0..(MaxRandom - 1)] :
        /\ LET res == loadTransactions(transactions, storage, now, rs)
           IN /\ transactions' = res.txs
              /\ raised' = res.raised
              /\ IF res.raised THEN UNCHANGED viewVars
                 ELSE Show(renderAll(res.txs, Str(""), Str(""), "all", tz, now))
        /\ lastOp' = "load"
        /\ filterStart' = Str("")
        /\ filterEnd' = Str("")
        /\ filterCategory' = "all"
        /\ UNCHANGED <<storage, now, tz>>

\* the submit handler returns at a failed validateInputs, on some input that
\* does not pass: nothing but the alert happens
SubmitRejected ==
    /\ lastOp # "none"
    /\ ~(\A nameText \in FormNames, amountText \in FormAmounts,
            dateValue \in FormDates, categoryText \in FormCategories :
             SubmitValid(nameText, amountText, dateValue, categoryText, now))
    /\ UNCHANGED vars

\* the submit handler on inputs validateInputs accepts: addTransaction
SubmitAdded(nameText, amountText, dateValue, categoryText, typeValue, r) ==
    /\ lastOp # "none"
    /\ Len(transactions) < MaxLen
    /\ SubmitValid(nameText, amountText, dateValue, categoryText, now)
    /\ LET res == addTransaction(transactions, storage,
                                 SubmitName(nameText), SubmitAmount(amountText),
                                 typeValue, SubmitDate(dateValue, now),
                                 SubmitCategory(categoryText), now, r)
           cat == populateCategoryFilter(filterCategory, res.txs)
       IN /\ transactions' = res.txs
          /\ storage' = res.blob
          /\ filterCategory' = cat
          /\ Show(renderAll(res.txs, filterStart, filterEnd, cat, tz, now))
    /\ lastOp' = "add"
    /\ raised' = FALSE
    /\ UNCHANGED <<now, filterStart, filterEnd, tz>>

\* the form's submit handler
SubmitForm ==
    \/ SubmitRejected
    \/ /\ Len(transactions) < MaxLen
       /\ \E nameText \in FormNames, amountText \in FormAmounts,
             dateValue \in FormDates, categoryText \in FormCategories :
              /\ SubmitValid(nameText, amountText, dateValue, categoryText, now)
              /\ \E typeValue \in FormTypes, r \in 0..(MaxRandom - 1) :
                    SubmitAdded(nameText, amountText, dateValue, categoryText,
                                typeValue, r)

\* the ids deleteTransaction is called with: those of the entries, and one
\* no entry has
DeleteIds == { transactions[i].id : i \in 1..Len(transactions) } \cup {Num(-1)}

\* deleteTransaction(id)
Delete(id) ==
    /\ lastOp # "none"
    /\ LET res == deleteTransaction(transactions, storage, id)
           cat == populateCategoryFilter(filterCategory, res.txs)
       IN /\ transactions' = res.txs
          /\ storage' = res.blob
          /\ filterCategory' = cat
          /\ Show(renderAll(res.txs, filterStart, filterEnd, cat, tz, now))
    /\ lastOp' = "delete"
    /\ raised' = FALSE
    /\ UNCHANGED <<now, filterStart, filterEnd, tz>>

DeleteEntry == \E id \in DeleteIds : Delete(id)

\* the clock advances between two handlers
Tick ==
    /\ now < MaxClock
    /\ now' = now + 1
    /\ UNCHANGED <<storage, transactions, raised, lastOp, filterVars, viewVars>>

Next ==
    \/ Tick
    \/ Load
    \/ SubmitForm
    \/ DeleteEntry

Spec == Init /\ [][Next]_vars

\* ---- the filter controls ----
\* The ledgers the filter is exercised on: what a page load shows after adds
\* of entries dated on days 1..MaxDay in two categories.
FilterEntry(i, d, c) ==
    [id |-> Num(i), name |-> Str("Rent"), amount |-> Num(5), type |-> Str("expense"),
     date |-> DateStr(d), category |-> Str(c)]
FilterLedgers ==
    UNION { { [i \in 1..k |-> FilterEntry(i, f[i][1], f[i][2])] :
                f \in [1..k -> (1..MaxDay) \X {"Food", "Uncategorized"}] } :
            k \in 0..MaxLen }

InitFilter ==
    /\ transactions \in FilterLedgers
    /\ storage = saveTransactions(transactions)
    /\ raised = FALSE
    /\ lastOp = "load"
    /\ now = 0
    /\ filterStart = Str("")
    /\ filterEnd = Str("")
    /\ filterCategory = "all"
    /\ tz \in TzOffsets
    /\ filtered = transactions
    /\ balance = updateBalance(transactions)
    /\ summary = computeMonthlySummary(transactions, now)

FilterDates == {Str("")} \cup { DateStr(d) : d \in 1..MaxDay }

\* the change handler of filterStart: renderAll
ChangeFilterStart ==
    \E v \in FilterDates :
        /\ filterStart' = v
        /\ Show(renderAll(transactions, v, filterEnd, filterCategory, tz, now))
        /\ lastOp' = "filter"
        /\ UNCHANGED <<storage, transactions, raised, now, filterEnd, filterCategory, tz>>

\* the change handler of filterEnd: renderAll
ChangeFilterEnd ==
    \E v \in FilterDates :
        /\ filterEnd' = v
        /\ Show(renderAll(transactions, filterStart, v, filterCategory, tz, now))
        /\ lastOp' = "filter"
        /\ UNCHANGED <<storage, transactions, raised, now, filterStart, filterCategory, tz>>

\* the change handler of filterCategorySelect: renderAll
ChangeFilterCategory ==
    \E c \in {"all"} \cup getAllCategories(transactions) :
        /\ filterCategory' = c
        /\ Show(renderAll(transactions, filterStart, filterEnd, c, tz, now))
        /\ lastOp' = "filter"
        /\ UNCHANGED <<storage, transactions, raised, now, filterStart, filterEnd, tz>>

\* the click handler of clearFiltersBtn
ClearFilters ==
    /\ filterStart' = Str("")
    /\ filterEnd' = Str("")
    /\ filterCategory' = "all"
    /\ Show(renderAll(transactions, Str(""), Str(""), "all", tz, now))
    /\ lastOp' = "filter"
    /\ UNCHANGED <<storage, transactions, raised, now, tz>>

NextFilter ==
    \/ ChangeFilterStart
    \/ ChangeFilterEnd
    \/ ChangeFilterCategory
    \/ ClearFilters

SpecFilter == InitFilter /\ [][NextFilter]_vars

\* ---- the monthly summary and the balance ----
\* The ledgers the summary is exercised on: what a page load shows of entries
\* of both types with integer amounts, dated in two months or without a date.
SummaryEntry(i, amount, type, date) ==
    [id |-> Num(i), name |-> Str("Rent"), amount |-> Num(amount), type |-> Str(type),
     date |-> date, category |-> Str("Food")]
SummaryAmounts == {3, 5}
SummaryDates == {Str(""), DateStr(2), DateStr(3)}
SummaryLedgers ==
    UNION { { [i \in 1..k |-> SummaryEntry(i, f[i][1], f[i][2], f[i][3])] :
                f \in [1..k -> SummaryAmounts \X {"income", "expense"} \X SummaryDates] } :
            k \in 0..MaxLen }

InitSummary ==
    /\ transactions \in SummaryLedgers
    /\ storage = saveTransactions(transactions)
    /\ raised = FALSE
    /\ lastOp = "load"
    /\ now = 0
    /\ filterStart = Str("")
    /\ filterEnd = Str("")
    /\ filterCategory = "all"
    /\ tz = 0
    /\ filtered = transactions
    /\ balance = updateBalance(transactions)
    /\ summary = computeMonthlySummary(transactions, now)

SpecSummary == InitSummary /\ [][NextFilter]_vars

\* ---- claims ----
\* whether entry e is in the sequence txs
InSeq(e, txs) == \E j \in 1..Len(txs) : txs[j] = e

\* C1: with the category selector on "all", applyFilters keeps every entry
\* dated exactly startDate and every entry dated exactly endDate (the other
\* bound unset or not excluding that day), whatever the local UTC offset.
C1_FilterBoundsInclusive ==
    filterCategory = "all" =>
        \A i \in 1..Len(transactions) :
            LET e == transactions[i]
            IN /\ ( /\ filterStart = e.date
                    /\ (filterEnd = Str("") \/ filterEnd.n >= e.date.n) )
                  => InSeq(e, filtered)
               /\ ( /\ filterEnd = e.date
                    /\ (filterStart = Str("") \/ filterStart.n <= e.date.n) )
                  => InSeq(e, filtered)

\* C2: in every reachable state every stored entry's amount is a number that
\* is not negative.
C2_AmountsNonNegative ==
    \A i \in 1..Len(transactions) :
        /\ transactions[i].amount.t = "number"
        /\ transactions[i].amount.n >= 0

\* a text that is not empty
NonEmptyText(v) == v.t = "string" /\ v.s # ""

\* C3: after loadTransactions every entry has a non-empty name and a
\* non-empty category.
C3_NamesAndCategoriesNonEmpty ==
    lastOp = "load" =>
        \A i \in 1..Len(transactions) :
            /\ NonEmptyText(transactions[i].name)
            /\ NonEmptyText(transactions[i].category)

\* C4: no two entries of the transactions array have the same id.
C4_IdsUnique ==
    \A i, j \in 1..Len(transactions) :
        i # j => transactions[i].id # transactions[j].id

\* txs without its i-th element
RemoveAt(txs, i) == SubSeq(txs, 1, i - 1) \o SubSeq(txs, i + 1, Len(txs))

\* C5: deleteTransaction(id) removes exactly one entry, one whose id is id,
\* and keeps the others as they are and in their order; when no entry has
\* that id, transactions is unchanged.
C5_DeleteRemovesExactlyOne ==
    [][ \A id \in DeleteIds :
            Delete(id) =>
                IF \E i \in 1..Len(transactions) : transactions[i].id = id
                THEN \E i \in 1..Len(transactions) :
                        /\ transactions[i].id = id
                        /\ transactions' = RemoveAt(transactions, i)
                ELSE transactions' = transactions ]_vars

\* C6: once addTransaction or deleteTransaction has returned, the blob under
\* the storage key is the serialization of the whole transactions array.
C6_SnapshotMatchesLedger ==
    lastOp \in {"add", "delete"} => storage = JSONStringify(transactions)

\* C6 witness: an add to a loaded ledger has returned and the blob holds both
\* entries.
C6_Witness ==
    /\ lastOp = "add"
    /\ Len(transactions) = 2
    /\ storage.kind = "array"
    /\ Len(storage.recs) = 2

\* C7: loadTransactions never raises to its caller, and on an absent, empty,
\* unparseable or non-array blob the ledger is the empty sequence.
C7_LoadNeverRaises ==
    lastOp = "load" =>
        /\ ~raised
        /\ storage.kind \in {"absent", "empty", "unparseable", "nonarray"}
              => transactions = <<>>

\* C7 witness: a load of an unparseable blob has returned with an empty ledger.
C7_Witness ==
    /\ lastOp = "load"
    /\ storage.kind = "unparseable"
    /\ ~raised
    /\ transactions = <<>>

\* C8: a blob that parses to n raw records loads as exactly n entries in the
\* same order, each keeping the id its record has.
C8_EveryRecordKept ==
    (lastOp = "load" /\ storage.kind = "array") =>
        /\ Len(transactions) = Len(storage.recs)
        /\ \A i \in 1..Len(storage.recs) :
              storage.recs[i].id # Undef => transactions[i].id = storage.recs[i].id

\* the inputs the claim calls invalid: name empty or whitespace, amount not a
\* number or not positive, date missing, category missing
InvalidInput(nameText, amountText, dateValue, categoryText) ==
    \/ Trim(nameText) = ""
    \/ ToNumber(Str(amountText)).t # "number"
    \/ ToNumber(Str(amountText)).n <= 0
    \/ dateValue = Str("")
    \/ categoryText = ""

\* C9: a submit with invalid input leaves transactions and the persisted blob
\* unchanged.
C9_InvalidSubmitAddsNothing ==
    [][ \A nameText \in FormNames, amountText \in FormAmounts,
           dateValue \in FormDates, categoryText \in FormCategories,
           typeValue \in FormTypes, r \in 0..(MaxRandom - 1) :
            ( /\ InvalidInput(nameText, amountText, dateValue, categoryText)
              /\ \/ /\ ~SubmitValid(nameText, amountText, dateValue, categoryText, now)
                    /\ SubmitRejected
                 \/ SubmitAdded(nameText, amountText, dateValue, categoryText,
                                typeValue, r) )
            => UNCHANGED <<transactions, storage>> ]_vars

\* C10: saving the transactions array and loading it again yields an equal
\* array.
C10_SaveLoadRoundTrip ==
    lastOp # "none" =>
        \A rs \in [1..Len(transactions) -> 0..(MaxRandom - 1)] :
            loadTransactions(transactions, saveTransactions(transactions), now, rs).txs
                = transactions

\* the entries of list of the given type
RECURSIVE OfType(_, _)
OfType(list, type) ==
    IF list = <<>> THEN <<>>
    ELSE (IF Head(list).type = Str(type) THEN <<Head(list)>> ELSE <<>>)
         \o OfType(Tail(list), type)

\* the entries of list whose month key is month
RECURSIVE OfMonth(_, _)
OfMonth(list, month) ==
    IF list = <<>> THEN <<>>
    ELSE (IF MonthKey(Head(list), now) = month THEN <<Head(list)>> ELSE <<>>)
         \o OfMonth(Tail(list), month)

\* the sum of the integer amounts of list
RECURSIVE AmountOf(_)
AmountOf(list) ==
    IF list = <<>> THEN 0 ELSE Head(list).amount.n + AmountOf(Tail(list))

\* the sum of net over the rows
RECURSIVE NetOfRows(_)
NetOfRows(rows) ==
    IF rows = <<>> THEN 0 ELSE Head(rows).net.n + NetOfRows(Tail(rows))

\* whether every amount of list is an integer
IntegerAmounts(list) == \A i \in 1..Len(list) : list[i].amount.t = "number"

\* C11: for entries with integer amounts, the net of the rows of the monthly
\* summary adds up to the balance shown for the same entries, which is their
\* income minus their expense; each row holds exactly the income and the
\* expense of the entries of its month, every entry's month has a row, and
\* no two rows have the same month.
C11_SummaryReconciles ==
    IntegerAmounts(filtered) =>
        /\ balance = Num(AmountOf(OfType(filtered, "income"))
                         - AmountOf(OfType(filtered, "expense")))
        /\ \A i \in 1..Len(summary) : summary[i].net.t = "number"
        /\ Num(NetOfRows(summary)) = balance
        /\ \A i \in 1..Len(summary) :
              /\ summary[i].income =
                    Num(AmountOf(OfType(OfMonth(filtered, summary[i].month), "income")))
              /\ summary[i].expense =
                    Num(AmountOf(OfType(OfMonth(filtered, summary[i].month), "expense")))
        /\ \A i \in 1..Len(filtered) :
              \E j \in 1..Len(summary) : summary[j].month = MonthKey(filtered[i], now)
        /\ \A i, j \in 1..Len(summary) : summary[i].month = summary[j].month => i = j

\* a filter change has shown an income and an expense of one month in one row
C11_Witness ==
    /\ lastOp = "filter"
    /\ Len(filtered) = 2
    /\ filtered[1].type # filtered[2].type
    /\ Len(summary) = 1
    /\ summary[1].net.n # 0

====
